---- MODULE Spec2Model ----
(***************************************************************************)
(* Model of homeassistant/components/sensor/coinbasewallet.py:             *)
(* the platform bootstrap (setup_platform), the sensor adapter             *)
(* (CoinbaseSensor) and the throttled account poller (CoinbaseClient).     *)
(*                                                                         *)
(* Python values are tagged records: None, Str(tokens), Bool(b).  A str is *)
(* a sequence of tokens, so that str.format is concatenation and "the      *)
(* message contains the request URL" is a statement about subsequences.    *)
(***************************************************************************)
EXTENDS Integers, Sequences, FiniteSets, TLC

VARIABLES
    clients,      \* heap of CoinbaseClient objects (1..Len), fields as in __init__
    sensors,      \* heap of CoinbaseSensor objects; .data is an index into clients
    now,          \* the host clock, in seconds
    calls,        \* calls made by the most recent operation, in order: the
                  \* remote calls it issued, and add_devices
    last,         \* the most recent operation: its name, target, outcome and inputs
    setup,        \* setup_platform: whether it ran, what it returned, and when
    devices,      \* the host's add_devices invocations, each a list of sensor refs
    ever_wallet,  \* history: per client, whether a refresh ever reported 'wallet'
    attempted     \* history: per client, when update last called get_account
                  \* and whether that call failed (None: it never called)

vars == <<clients, sensors, now, calls, last, setup, devices, ever_wallet, attempted>>

----------------------------------------------------------------------------
(* Bounds of the model *)

MaxTime == 120      \* the clock of the poller specification stops here
MaxUptime == 60     \* the clock of the platform specification stops here
MaxAccounts == 2    \* the longest account listing

(* Program constants *)

MIN_TIME_BETWEEN_SCANS == 60

----------------------------------------------------------------------------
(* Python values *)

None == [py |-> "NoneType"]
Str(t) == [py |-> "str", v |-> t]
Bool(b) == [py |-> "bool", v |-> b]
Time(t) == [py |-> "datetime", v |-> t]

\* '{}'.format(x): the tokens of a str, the text None for None
format(x) == IF x = None THEN <<"None">> ELSE x.v

\* sub occurs in s as a contiguous run of tokens
Contains(s, sub) ==
    \E i \in 1..(Len(s) - Len(sub) + 1) : SubSeq(s, i, i + Len(sub) - 1) = sub

----------------------------------------------------------------------------
(* CoinbaseClient *)

\* CoinbaseClient.__init__: every snapshot field unset.  throttle is the
\* per-instance timestamp the Throttle decorator keeps on the object.
CoinbaseClient_init(account_id) ==
    [ account_id              |-> account_id,
      account_type            |-> None,
      created_at              |-> None,
      updated_at              |-> None,
      primary                 |-> None,
      resource                |-> None,
      balance_amount          |-> None,
      balance_currency        |-> None,
      native_balance_amount   |-> None,
      native_balance_currency |-> None,
      buy_price               |-> None,
      sell_price              |-> None,
      spot_price              |-> None,
      exch_rate_native_usd    |-> None,
      throttle                |-> None ]

\* Faulty variant of balance with the two amounts exchanged.
balance_swapped(self, native) ==
    IF native = TRUE THEN self.balance_amount ELSE self.native_balance_amount

\* CoinbaseClient.balance
balance(self, native) ==
    IF native = TRUE THEN self.native_balance_amount ELSE self.balance_amount

\* the queries table of coinbasehttp, already prefixed with base_url
req_url_of(query, currency, currency_native) ==
    LET base_url == <<"https://api.coinbase.com/v2/">>
        pair == format(currency) \o <<"-">> \o format(currency_native)
    IN  CASE query = "buy_price"     -> base_url \o <<"prices/">> \o pair \o <<"/buy">>
          [] query = "sell_price"    -> base_url \o <<"prices/">> \o pair \o <<"/sell">>
          [] query = "spot_price"    -> base_url \o <<"prices/">> \o pair \o <<"/spot">>
          [] query = "exchange_rate" -> base_url \o <<"exchange-rates">>

\* str(HTTPError): "HTTP Error <code>: <reason>"
HTTPError_str(r) == <<"HTTP Error ", r.status, ": ", r.reason>>

\* Faulty variant of coinbasehttp that lets the HTTPError escape.
coinbasehttp_uncaught(query, currency, currency_native, r) ==
    LET req_url == req_url_of(query, currency, currency_native)
    IN  IF r.status # "200"
        THEN [raised |-> TRUE, req_url |-> req_url, value |-> None]
        ELSE [raised |-> FALSE, req_url |-> req_url,
              value |-> IF query = "exchange_rate"
                        THEN IF format(currency_native) \in DOMAIN r.data.rates
                             THEN r.data.rates[format(currency_native)]
                             ELSE Str(<<"Currency \"">> \o format(currency_native)
                                      \o <<"\" not supported by Coinbase">>)
                        ELSE r.data.amount]

\* Faulty variant of coinbasehttp that indexes the rates map without testing
\* for the key: a missing currency is a KeyError.
coinbasehttp_keyerror(query, currency, currency_native, r) ==
    LET req_url == req_url_of(query, currency, currency_native)
    IN  IF r.status # "200"
        THEN [raised |-> FALSE, req_url |-> req_url,
              value |-> Str(<<"Coinbase API error (">> \o req_url \o <<"): ">>
                            \o HTTPError_str(r))]
        ELSE IF query = "exchange_rate"
             THEN IF format(currency_native) \in DOMAIN r.data.rates
                  THEN [raised |-> FALSE, req_url |-> req_url,
                        value |-> r.data.rates[format(currency_native)]]
                  ELSE [raised |-> TRUE, req_url |-> req_url, value |-> None]
             ELSE [raised |-> FALSE, req_url |-> req_url, value |-> r.data.amount]

\* CoinbaseClient.coinbasehttp, with r the answer of the endpoint to the
\* request: [status, reason] for an HTTPError, [status, data] otherwise.
coinbasehttp(query, currency, currency_native, r) ==
    LET req_url == req_url_of(query, currency, currency_native)
    IN  IF r.status # "200"
        THEN [raised |-> FALSE, req_url |-> req_url,
              value |-> Str(<<"Coinbase API error (">> \o req_url \o <<"): ">>
                            \o HTTPError_str(r))]
        ELSE [raised |-> FALSE, req_url |-> req_url,
              value |-> IF query = "exchange_rate"
                        THEN IF format(currency_native) \in DOMAIN r.data.rates
                             THEN r.data.rates[format(currency_native)]
                             ELSE Str(<<"Currency \"">> \o format(currency_native)
                                      \o <<"\" not supported by Coinbase">>)
                        ELSE r.data.amount]

\* The record a remote call leaves in the call log.
PricingCall(query, currency, currency_native, res) ==
    [ api |-> "coinbasehttp", query |-> query, currency |-> currency,
      currency_native |-> currency_native, req_url |-> res.req_url ]

\* What update returns: the object after the call, the remote calls it issued,
\* its return value, whether an exception left it, and how it ended.
Returned(self, issued, result, outcome) ==
    [ self |-> self, calls |-> issued, result |-> result,
      raised |-> FALSE, outcome |-> outcome ]

\* A call of balance as an operation on the object: the method assigns no
\* attribute and calls nothing.
CoinbaseClient_balance(self, native) ==
    Returned(self, <<>>, balance(self, native), "read")

\* The frame update runs in: the object, the calls issued so far, and whether
\* an exception is propagating.
Frame(self, issued) == [self |-> self, calls |-> issued, raised |-> FALSE]

\* The assignment  self.<field> = r  of the result r of a lookup: the call
\* is logged; the field is assigned if the lookup returned.
store_lookup(st, field, query, currency, currency_native, r) ==
    [ self   |-> IF r.raised THEN st.self ELSE [st.self EXCEPT ![field] = r.value],
      calls  |-> Append(st.calls, PricingCall(query, currency, currency_native, r)),
      raised |-> r.raised ]

\* One statement  self.<field> = self.coinbasehttp(query, currency, native)
\* of update; nothing runs after an exception.
assign_lookup(st, field, query, currency, currency_native, w) ==
    IF st.raised THEN st
    ELSE store_lookup(st, field, query, currency, currency_native,
                      coinbasehttp(query, currency, currency_native, w.http[query]))

\* update, lines 208-216: the account's fields overwrite the snapshot's
update_account_fields(st, account) ==
    [st EXCEPT !.self =
        [@ EXCEPT
           !.created_at              = account.created_at,
           !.primary                 = account.primary,
           !.account_type            = account.type,
           !.resource                = account.resource,
           !.balance_amount          = account.balance.amount,
           !.balance_currency        = account.balance.currency,
           !.native_balance_amount   = account.native_balance.amount,
           !.native_balance_currency = account.native_balance.currency,
           !.updated_at              = account.updated_at]]

\* update, lines 217-221: the exchange rate, for any account type
update_exchange_rate(st, account, w) ==
    assign_lookup(st, "exch_rate_native_usd", "exchange_rate",
                  None, account.native_balance.currency, w)

\* Faulty variant of update_prices without the test of the account type.
update_prices_any_type(st, account, w) ==
    assign_lookup(
        assign_lookup(
            assign_lookup(st, "buy_price", "buy_price",
                          account.balance.currency, account.native_balance.currency, w),
            "sell_price", "sell_price",
            account.balance.currency, account.native_balance.currency, w),
        "spot_price", "spot_price",
        account.balance.currency, account.native_balance.currency, w)

\* Faulty variant of update_prices that asks for the sell price first.
update_prices_sell_first(st, account, w) ==
    IF st.raised \/ st.self.account_type # Str(<<"wallet">>) THEN st
    ELSE assign_lookup(
             assign_lookup(
                 assign_lookup(st, "sell_price", "sell_price",
                               account.balance.currency,
                               account.native_balance.currency, w),
                 "buy_price", "buy_price",
                 account.balance.currency, account.native_balance.currency, w),
             "spot_price", "spot_price",
             account.balance.currency, account.native_balance.currency, w)

\* update, lines 222-236: buy, sell and spot price, for a wallet only
update_prices(st, account, w) ==
    IF st.raised \/ st.self.account_type # Str(<<"wallet">>) THEN st
    ELSE assign_lookup(
             assign_lookup(
                 assign_lookup(st, "buy_price", "buy_price",
                               account.balance.currency,
                               account.native_balance.currency, w),
                 "sell_price", "sell_price",
                 account.balance.currency, account.native_balance.currency, w),
             "spot_price", "spot_price",
             account.balance.currency, account.native_balance.currency, w)

\* update falls off its end (line 236) and returns None, unless an exception
\* left it
update_end(st) ==
    [ self |-> st.self, calls |-> st.calls, result |-> None, raised |-> st.raised,
      outcome |-> IF st.raised THEN "raised" ELSE "refreshed" ]

\* update, lines 208-236: what follows a successful get_account
update_from_account(self, issued, account, w) ==
    update_end(
        update_prices(
            update_exchange_rate(
                update_account_fields(Frame(self, issued), account), account, w),
            account, w))

\* Faulty variant of the body of update that empties the snapshot when
\* get_account fails.
CoinbaseClient_update_body_reset(self, w) ==
    IF w.account.error
    THEN Returned([CoinbaseClient_init(self.account_id)
                      EXCEPT !.throttle = self.throttle],
                  << [api |-> "get_account", arg |-> self.account_id] >>,
                  Bool(FALSE), "auth_error")
    ELSE update_from_account(
             self, << [api |-> "get_account", arg |-> self.account_id] >>,
             w.account.data, w)

\* The body of CoinbaseClient.update (lines 199-236), on the remote answers w:
\* w.account is the answer of get_account, w.http[q] that of the endpoint of q.
CoinbaseClient_update_body(self, w) ==
    IF w.account.error
    THEN Returned(self, << [api |-> "get_account", arg |-> self.account_id] >>,
                  Bool(FALSE), "auth_error")
    ELSE update_from_account(
             self, << [api |-> "get_account", arg |-> self.account_id] >>,
             w.account.data, w)

\* The Throttle decorator's guard (homeassistant.util.Throttle): the wrapped
\* method runs when it has never run on this object, or when at least
\* min_time has elapsed since its last run on this object.
Throttle_open(throttle, t, min_time) ==
    throttle = None \/ ~(t - throttle.v < min_time)

\* The Throttle decorator after the wrapped method returned r at time t: the
\* object is stamped with the time of the run.
Throttle_stamp(r, t) ==
    IF r.raised THEN r ELSE [r EXCEPT !.self.throttle = Time(t)]

\* Faulty variant of CoinbaseClient.update without the decorator of line 196.
CoinbaseClient_update_unthrottled(self, t, w) ==
    Throttle_stamp(CoinbaseClient_update_body(self, w), t)

\* Faulty variant of CoinbaseClient.update that is still throttled when
\* exactly the minimum time has elapsed.
CoinbaseClient_update_late(self, t, w) ==
    IF self.throttle # None /\ t - self.throttle.v <= MIN_TIME_BETWEEN_SCANS
    THEN Returned(self, <<>>, None, "throttled")
    ELSE Throttle_stamp(CoinbaseClient_update_body(self, w), t)

\* Faulty variant of CoinbaseClient.update whose time of the last run is set
\* only by a run that got the account.
CoinbaseClient_update_armed_on_success(self, t, w) ==
    IF ~Throttle_open(self.throttle, t, MIN_TIME_BETWEEN_SCANS)
    THEN Returned(self, <<>>, None, "throttled")
    ELSE IF w.account.error
         THEN CoinbaseClient_update_body(self, w)
         ELSE Throttle_stamp(CoinbaseClient_update_body(self, w), t)

\* CoinbaseClient.update: the body under @Throttle(MIN_TIME_BETWEEN_SCANS),
\* called at time t.  A throttled call returns None and touches nothing.
CoinbaseClient_update(self, t, w) ==
    IF ~Throttle_open(self.throttle, t, MIN_TIME_BETWEEN_SCANS)
    THEN Returned(self, <<>>, None, "throttled")
    ELSE Throttle_stamp(CoinbaseClient_update_body(self, w), t)

----------------------------------------------------------------------------
(* The remote services: the answers the model draws its inputs from *)

Queries == {"exchange_rate", "buy_price", "sell_price", "spot_price"}
Versions == {"1", "2"}
NativeCurrencies == {"USD", "XYZ"}

\* get_account's answer: an account of the given kind; v varies every field
AccountDetail(kind, v, n) ==
    [ type           |-> Str(<<kind>>),
      resource       |-> Str(<<"account">>),
      primary        |-> Bool(v = "1"),
      created_at     |-> Str(<<"2017-11-0", v, "T10:00:00Z">>),
      updated_at     |-> Str(<<"2017-12-0", v, "T10:00:00Z">>),
      balance        |-> [amount   |-> Str(<<v, ".50">>),
                          currency |-> Str(<<IF kind = "wallet" THEN "BTC" ELSE "EUR">>)],
      native_balance |-> [amount   |-> Str(<<v, "00.00">>),
                          currency |-> Str(<<n>>)] ]

HttpFailure == [status |-> "404", reason |-> "Not Found"]

\* a 2xx answer of the endpoint of query q; XYZ is in no rates map
HttpOk(q, v) ==
    [ status |-> "200",
      data   |-> IF q = "exchange_rate"
                 THEN [rates |-> [k \in {<<"USD">>, <<"EUR">>} |->
                                    Str(<<IF k = <<"USD">> THEN "1.0" ELSE "0.9", v>>)]]
                 ELSE [amount |-> Str(<<CASE q = "buy_price"  -> "71"
                                          [] q = "sell_price" -> "69"
                                          [] q = "spot_price" -> "70",
                                        v, "0.00">>)] ]

\* the answers to one refresh: the account, and the lookups in F failing
World(kind, v, n, F) ==
    [ account |-> [error |-> FALSE, data |-> AccountDetail(kind, v, n)],
      http    |-> [q \in Queries |-> IF q \in F THEN HttpFailure ELSE HttpOk(q, v)] ]

AuthFailure ==
    [ account |-> [error |-> TRUE],
      http    |-> [q \in Queries |-> HttpFailure] ]

\* Every answer to a refresh the poller is checked on.  A fiat account's
\* price endpoints are never asked, so only its rate lookup is varied.
Worlds ==
    {AuthFailure} \cup
    { World("wallet", v, n, F) : v \in Versions, n \in NativeCurrencies,
                                F \in SUBSET Queries } \cup
    { World("fiat", v, n, F) : v \in Versions, n \in NativeCurrencies,
                              F \in SUBSET {"exchange_rate"} }

TickSteps == {30, 60}

----------------------------------------------------------------------------
(* Operations of the host on one poller *)

\* last: the operation, its target, how it ended, what it returned, the
\* remote answers it consumed (None: it asked nothing), and the time since the target's previous
\* refresh when it was called (None: never refreshed)
Op(op, idx, r, world, since) ==
    [ op |-> op, idx |-> idx, outcome |-> r.outcome, result |-> r.result,
      raised |-> r.raised, world |-> world, since |-> since ]

NoResult == Returned(None, <<>>, None, "-")

Since(throttle, t) == IF throttle = None THEN None ELSE Time(t - throttle.v)

\* the history variable: the client was given an account of type 'wallet'
SeenWallet(seen, r, w) ==
    seen \/ (r.calls # <<>> /\ ~w.account.error
                 /\ w.account.data.type = Str(<<"wallet">>))

\* the history variable: the update that returned r at time t called
\* get_account, which answered w.account
Attempt(prev, r, w, t) ==
    IF r.calls = <<>> THEN prev
    ELSE [at |-> t, auth_failed |-> w.account.error]

\* time passes
Tick ==
    /\ \E d \in TickSteps :
         /\ now + d <= MaxTime
         /\ now' = now + d
    /\ calls' = <<>>
    /\ last' = Op("tick", 0, NoResult, None, None)
    /\ UNCHANGED <<clients, sensors, setup, devices, ever_wallet, attempted>>

\* the effect of an update of client p that was given w and returned r
ClientUpdated(p, w, r) ==
    /\ clients' = [clients EXCEPT ![p] = r.self]
    /\ calls' = r.calls
    /\ last' = Op("update", p, r, IF r.calls = <<>> THEN None ELSE w,
                  Since(clients[p].throttle, now))
    /\ ever_wallet' = [ever_wallet EXCEPT ![p] = SeenWallet(@, r, w)]
    /\ attempted' = [attempted EXCEPT ![p] = Attempt(@, r, w, now)]
    /\ UNCHANGED <<sensors, now, setup, devices>>

\* a caller invokes CoinbaseClient.update on client p
ClientUpdate(p, w) ==
    ClientUpdated(p, w, CoinbaseClient_update(clients[p], now, w))

\* the effect of balance(native) on client p having returned r
ClientBalanceReturned(p, native, r) ==
    /\ clients' = [clients EXCEPT ![p] = r.self]
    /\ calls' = r.calls
    /\ last' = Op("balance", p, r, [native |-> native], None)
    /\ UNCHANGED <<sensors, now, setup, devices, ever_wallet, attempted>>

\* a caller invokes CoinbaseClient.balance on client p
ClientBalance(p, native) ==
    ClientBalanceReturned(p, native, CoinbaseClient_balance(clients[p], native))

InitPoller ==
    /\ clients = << CoinbaseClient_init(Str(<<"id-1">>)) >>
    /\ sensors = << >>
    /\ now = 0
    /\ calls = << >>
    /\ last = Op("start", 0, NoResult, None, None)
    /\ setup = [ran |-> FALSE, result |-> None, at |-> None]
    /\ devices = << >>
    /\ ever_wallet = << FALSE >>
    /\ attempted = << None >>

NextPoller ==
    \/ Tick
    \/ \E p \in 1..Len(clients), w \in Worlds : ClientUpdate(p, w)
    \/ \E p \in 1..Len(clients), native \in BOOLEAN : ClientBalance(p, native)

SpecPoller == InitPoller /\ [][NextPoller]_vars

----------------------------------------------------------------------------
(* CoinbaseSensor and setup_platform *)

\* CoinbaseSensor.__init__, lines 75-81, with r what self.data.update()
\* returned: the sensor object and the client it made.
CoinbaseSensor_init_fields(name, account_id, native, ref, r) ==
    [ sensor |-> [ name |-> name, account_id |-> account_id, native |-> native,
                   data |-> ref, unit_of_measurement |-> None,
                   state |-> balance(r.self, native) ],
      client |-> r.self,
      update |-> r ]

\* Faulty variant of CoinbaseSensor.__init__ whose sensors all use one client.
CoinbaseSensor_init_shared(name, account_id, native, ref, t, w) ==
    CoinbaseSensor_init_fields(
        name, account_id, native, 1,
        CoinbaseClient_update(CoinbaseClient_init(account_id), t, w))

\* Faulty variant of CoinbaseSensor.__init__ without the refresh of line 79.
CoinbaseSensor_init_lazy(name, account_id, native, ref, t, w) ==
    CoinbaseSensor_init_fields(
        name, account_id, native, ref,
        Returned(CoinbaseClient_init(account_id), <<>>, None, "skipped"))

\* CoinbaseSensor.__init__ at time t: a new client, stored at heap address
\* ref, refreshed at once on the answers w; the state is read from it.
CoinbaseSensor_init(name, account_id, native, ref, t, w) ==
    CoinbaseSensor_init_fields(
        name, account_id, native, ref,
        CoinbaseClient_update(CoinbaseClient_init(account_id), t, w))

\* Faulty variant of CoinbaseSensor.update that does not read the balance
\* again (line 129 missing).
CoinbaseSensor_update_state_kept(self, heap, r) ==
    [ sensor |-> self,
      heap   |-> [heap EXCEPT ![self.data] = r.self],
      update |-> r ]

\* CoinbaseSensor.update, line 129, with r what self.data.update() returned
CoinbaseSensor_update_state(self, heap, r) ==
    [ sensor |-> IF r.raised THEN self
                 ELSE [self EXCEPT !.state = balance(r.self, self.native)],
      heap   |-> [heap EXCEPT ![self.data] = r.self],
      update |-> r ]

\* CoinbaseSensor.update at time t, with heap the clients
CoinbaseSensor_update(self, heap, t, w) ==
    CoinbaseSensor_update_state(self, heap,
                                CoinbaseClient_update(heap[self.data], t, w))

\* dict.update: the keys of e are added to d, or overwritten
dict_update(d, e) ==
    [k \in DOMAIN d \cup DOMAIN e |-> IF k \in DOMAIN e THEN e[k] ELSE d[k]]

\* CoinbaseSensor.state_attributes, lines 103-115: the dict attrs
attrs_of(self, data) ==
    [ resource                |-> data.resource,
      primary                 |-> data.primary,
      type                    |-> data.account_type,
      created_at              |-> data.created_at,
      updated_at              |-> data.updated_at,
      balance_amount          |-> data.balance_amount,
      balance_currency        |-> data.balance_currency,
      native_balance_amount   |-> data.native_balance_amount,
      native_balance_currency |-> data.native_balance_currency,
      show_native             |-> Bool(self.native) ]

\* CoinbaseSensor.state_attributes, lines 116-121: the dict attrs_wallet
attrs_wallet_of(data) ==
    [ buy_price            |-> data.buy_price,
      sell_price           |-> data.sell_price,
      spot_price           |-> data.spot_price,
      exch_rate_native_usd |-> data.exch_rate_native_usd ]

\* Faulty variant of state_attributes without the test of the account type.
state_attributes_always_priced(self, heap) ==
    dict_update(attrs_of(self, heap[self.data]), attrs_wallet_of(heap[self.data]))

\* CoinbaseSensor.state_attributes, with heap the clients: the dict returned
state_attributes(self, heap) ==
    IF heap[self.data].account_type = Str(<<"wallet">>)
    THEN dict_update(attrs_of(self, heap[self.data]),
                     attrs_wallet_of(heap[self.data]))
    ELSE attrs_of(self, heap[self.data])

\* sensors.append(made), line 54.  acc holds the sensors made so far, the
\* clients they made, the remote calls issued and the answers each
\* construction was given.
appended(acc, w, made) ==
    [ sensors |-> Append(acc.sensors, made.sensor),
      clients |-> Append(acc.clients, made.client),
      calls   |-> acc.calls \o made.update.calls,
      inputs  |-> Append(acc.inputs, w) ]

\* setup_platform, lines 53-56: the sensor of one account is constructed and
\* appended
append_sensor(config, account, w, t, acc) ==
    appended(acc, w,
             CoinbaseSensor_init(Str(<<"Coinbase ">> \o account.name.v), account.id,
                                 config.native_balance, Len(acc.clients) + 1, t, w))

\* Faulty variant of the loop of setup_platform that ignores exclude_wallet.
RECURSIVE setup_loop_all(_, _, _, _, _)
setup_loop_all(config, accounts, ws, t, acc) ==
    IF accounts = << >> THEN acc
    ELSE setup_loop_all(config, Tail(accounts), Tail(ws), t,
                        append_sensor(config, Head(accounts), Head(ws), t, acc))

\* setup_platform, lines 50-64: one CoinbaseSensor for each listed account
\* whose name is not in exclude_wallet, in listing order; ws are the answers
\* to the first refresh of each listed account.
RECURSIVE setup_loop(_, _, _, _, _)
setup_loop(config, accounts, ws, t, acc) ==
    IF accounts = << >> THEN acc
    ELSE setup_loop(config, Tail(accounts), Tail(ws), t,
                    IF Head(accounts).name \notin config.exclude_wallet
                    THEN append_sensor(config, Head(accounts), Head(ws), t, acc)
                    ELSE acc)

\* the state of setup_platform after get_accounts returned
Listed ==
    [ sensors |-> << >>, clients |-> << >>,
      calls |-> << [api |-> "get_accounts", arg |-> None] >>, inputs |-> << >> ]

\* Faulty variant of setup_platform's registration: add_devices is called
\* right after the listing, with the list still empty.
setup_registered_early(built) ==
    [ result      |-> None,
      sensors     |-> built.sensors,
      clients     |-> built.clients,
      calls       |-> << Head(built.calls), [api |-> "add_devices", arg |-> << >>] >>
                         \o Tail(built.calls),
      inputs      |-> built.inputs,
      add_devices |-> << << >> >> ]

\* setup_platform, lines 66-67: add_devices(sensors), and None is returned.
\* add_devices is the list of the host's add_devices invocations, each the
\* list of sensors it was passed (as heap addresses); the invocation is also
\* logged after the calls made so far.
setup_registered(built) ==
    [ result      |-> None,
      sensors     |-> built.sensors,
      clients     |-> built.clients,
      calls       |-> Append(built.calls,
                             [ api |-> "add_devices",
                               arg |-> [k \in 1..Len(built.sensors) |-> k] ]),
      inputs      |-> built.inputs,
      add_devices |-> << [k \in 1..Len(built.sensors) |-> k] >> ]

\* Faulty variant of setup_platform that registers an empty list when the
\* listing fails.
setup_platform_registers_on_error(config, listing, ws, t) ==
    IF listing.error
    THEN [setup_registered(Listed) EXCEPT !.result = Bool(FALSE)]
    ELSE setup_registered(setup_loop(config, listing.data, ws, t, Listed))

\* setup_platform at time t: listing is the answer of get_accounts, ws[k] the
\* answers to the first refresh of the k-th listed account.
setup_platform(config, listing, ws, t) ==
    IF listing.error
    THEN [ result |-> Bool(FALSE), sensors |-> << >>, clients |-> << >>,
           calls |-> Listed.calls, inputs |-> << >>, add_devices |-> << >> ]
    ELSE setup_registered(setup_loop(config, listing.data, ws, t, Listed))

----------------------------------------------------------------------------
(* The configuration and the account listings the bootstrap is checked on *)

AccountSummaries ==
    { [id |-> Str(<<"id-1">>), name |-> Str(<<"Vault">>)],
      [id |-> Str(<<"id-2">>), name |-> Str(<<"Checking">>)],
      [id |-> Str(<<"id-3">>), name |-> Str(<<"Savings">>)] }

\* the listings: up to MaxAccounts distinct accounts, in any order
Listings ==
    UNION { { l \in [1..n -> AccountSummaries] :
                \A i, j \in 1..n : i # j => l[i] # l[j] } : n \in 0..MaxAccounts }

\* exclude_wallet is a list read only through 'in': a set of names
Configs ==
    [ native_balance : BOOLEAN,
      exclude_wallet : SUBSET {Str(<<"Vault">>), Str(<<"Checking">>)} ]

ListingFailure == [error |-> TRUE, data |-> <<>>]

\* the answers to a refresh the sensors are checked on
SensorWorlds ==
    { AuthFailure,
      World("fiat", "1", "USD", {}),
      World("wallet", "2", "XYZ", {"spot_price"}) }

\* One poller under the host's scheduling: time passes, and the host keeps
\* calling update (its refresh tick).
PollerUpdate == \E p \in 1..Len(clients), w \in SensorWorlds : ClientUpdate(p, w)

NextTicked == Tick \/ PollerUpdate

SpecTicked ==
    /\ InitPoller /\ [][NextTicked]_vars
    /\ WF_vars(Tick)
    /\ WF_vars(PollerUpdate)

----------------------------------------------------------------------------
(* Operations of the host on the platform *)

\* the effect of setup_platform having returned r
SetupReturned(config, listing, r) ==
    /\ setup' = [ran |-> TRUE, result |-> r.result, at |-> Time(now)]
    /\ sensors' = r.sensors
    /\ clients' = r.clients
    /\ calls' = r.calls
    /\ devices' = devices \o r.add_devices
    /\ ever_wallet' = [k \in 1..Len(r.inputs) |->
                         /\ ~r.inputs[k].account.error
                         /\ r.inputs[k].account.data.type = Str(<<"wallet">>)]
    /\ attempted' = [k \in 1..Len(r.inputs) |->
                        [at |-> now, auth_failed |-> r.inputs[k].account.error]]
    /\ last' = Op("setup_platform", 0, Returned(None, r.calls, r.result, "-"),
                  [config |-> config, listing |-> listing, inputs |-> r.inputs],
                  None)
    /\ UNCHANGED now

\* the host loads the platform: setup_platform runs, once
SetupPlatform(config, listing, ws) ==
    /\ ~setup.ran
    /\ SetupReturned(config, listing, setup_platform(config, listing, ws, now))

\* the effect of the update of sensor i that was given w and returned r
SensorUpdated(i, w, r) ==
    /\ sensors' = [sensors EXCEPT ![i] = r.sensor]
    /\ clients' = r.heap
    /\ calls' = r.update.calls
    /\ last' = Op("sensor_update", i, r.update,
                  IF r.update.calls = <<>> THEN None ELSE w,
                  Since(clients[sensors[i].data].throttle, now))
    /\ ever_wallet' = [ever_wallet EXCEPT
                         ![sensors[i].data] = SeenWallet(@, r.update, w)]
    /\ attempted' = [attempted EXCEPT
                        ![sensors[i].data] = Attempt(@, r.update, w, now)]
    /\ UNCHANGED <<now, setup, devices>>

\* the host's refresh tick on sensor i
SensorUpdate(i, w) ==
    /\ setup.ran
    /\ SensorUpdated(i, w, CoinbaseSensor_update(sensors[i], clients, now, w))

\* the host reads the state_attributes property of sensor i
SensorAttributes(i) ==
    /\ setup.ran
    /\ calls' = <<>>
    /\ last' = Op("state_attributes", i,
                  Returned(None, <<>>, state_attributes(sensors[i], clients), "read"),
                  None, None)
    /\ UNCHANGED <<clients, sensors, now, setup, devices, ever_wallet, attempted>>

Init ==
    /\ clients = << >>
    /\ sensors = << >>
    /\ now = 0
    /\ calls = << >>
    /\ last = Op("start", 0, NoResult, None, None)
    /\ setup = [ran |-> FALSE, result |-> None, at |-> None]
    /\ devices = << >>
    /\ ever_wallet = << >>
    /\ attempted = << >>

\* time passes while the platform is loaded
HostTick ==
    /\ setup.ran /\ clients # << >>
    /\ \E d \in TickSteps :
         /\ now + d <= MaxUptime
         /\ now' = now + d
    /\ calls' = <<>>
    /\ last' = Op("tick", 0, NoResult, None, None)
    /\ UNCHANGED <<clients, sensors, setup, devices, ever_wallet, attempted>>

Next ==
    \/ HostTick
    \/ \E config \in Configs : SetupPlatform(config, ListingFailure, << >>)
    \/ /\ ~setup.ran
       /\ \E config \in Configs, l \in Listings :
            \E ws \in [1..Len(l) -> SensorWorlds] :
                /\ \A k \in 1..Len(l) :
                       l[k].name \in config.exclude_wallet => ws[k] = AuthFailure
                /\ SetupPlatform(config, [error |-> FALSE, data |-> l], ws)
    \/ \E i \in 1..Len(sensors), w \in SensorWorlds : SensorUpdate(i, w)
    \/ \E i \in 1..Len(sensors) : SensorAttributes(i)

Spec == Init /\ [][Next]_vars

----------------------------------------------------------------------------
(* Vocabulary of the properties *)

WALLET == Str(<<"wallet">>)
FIAT == Str(<<"fiat">>)

\* the snapshot of a client: its fields without the throttle timestamp
Snapshot(c) == [c EXCEPT !.throttle = None]

AccountFields ==
    { "account_type", "created_at", "updated_at", "primary", "resource",
      "balance_amount", "balance_currency", "native_balance_amount",
      "native_balance_currency" }
PriceFields == {"buy_price", "sell_price", "spot_price"}
SnapshotFields == AccountFields \cup PriceFields \cup {"exch_rate_native_usd"}

FieldOf(q) == IF q = "exchange_rate" THEN "exch_rate_native_usd" ELSE q

\* a call is let through by the throttle: never refreshed, or >= 60 s ago
NotThrottled(since) == since = None \/ since.v >= MIN_TIME_BETWEEN_SCANS

\* the last operation was an update that ran and was given the answers in
\* last.world
Executed == last.op = "update" /\ NotThrottled(last.since) /\ last.world # None
GotAccount == Executed /\ ~last.world.account.error
GotKind(kind) == GotAccount /\ last.world.account.data.type = kind

GetAccountCall(c) == [api |-> "get_account", arg |-> c.account_id]
PricingQueries(cs) == [i \in 1..(Len(cs) - 1) |-> cs[i + 1].query]

\* the snapshot's account fields are those of the account answer a
MatchesAccount(c, a) ==
    /\ c.account_type = a.type
    /\ c.resource = a.resource
    /\ c.primary = a.primary
    /\ c.created_at = a.created_at
    /\ c.updated_at = a.updated_at
    /\ c.balance_amount = a.balance.amount
    /\ c.balance_currency = a.balance.currency
    /\ c.native_balance_amount = a.native_balance.amount
    /\ c.native_balance_currency = a.native_balance.currency

\* field value x is an error text that quotes the URL of the request the
\* refresh issued for query q
ErrorWithUrl(x, q) ==
    /\ x.py = "str"
    /\ \E i \in 2..Len(calls) :
         /\ calls[i].query = q
         /\ Contains(x.v, calls[i].req_url)
         /\ Head(x.v) = "Coinbase API error ("

NotSupported(nat) ==
    Str(<<"Currency \"">> \o nat.v \o <<"\" not supported by Coinbase">>)

----------------------------------------------------------------------------
(* C1. An update called less than 60 seconds after the poller's previous    *)
(* refresh issues no remote call and leaves every snapshot field as it was. *)

C1_ThrottledUpdateChangesNothing ==
    [][ \A p \in 1..Len(clients) :
          ( /\ last'.op = "update" /\ last'.idx = p
            /\ clients[p].throttle # None
            /\ now - clients[p].throttle.v < MIN_TIME_BETWEEN_SCANS )
          => ( calls' = <<>> /\ Snapshot(clients'[p]) = Snapshot(clients[p]) )
      ]_vars

\* a populated poller was updated within the interval
C1_Witness ==
    /\ last.op = "update"
    /\ last.since # None /\ last.since.v < MIN_TIME_BETWEEN_SCANS
    /\ clients[last.idx].account_type # None

(* C2. A non-throttled update whose get_account fails with an               *)
(* authentication error returns without raising, issues no pricing request  *)
(* and leaves every snapshot field as it was.                               *)

C2_AuthFailureKeepsSnapshot ==
    [][ \A p \in 1..Len(clients) :
          ( /\ last'.op = "update" /\ last'.idx = p
            /\ NotThrottled(Since(clients[p].throttle, now))
            /\ last'.world # None
            /\ last'.world.account.error )
          => ( /\ ~last'.raised
               /\ calls' = << GetAccountCall(clients[p]) >>
               /\ Snapshot(clients'[p]) = Snapshot(clients[p]) )
      ]_vars

\* the authentication error hit a populated snapshot
C2_Witness ==
    /\ Executed /\ last.world.account.error
    /\ clients[last.idx].account_type # None

\* What C3 says of a refresh of a wallet account apart from the rate of a
\* lookup that succeeded: no fault, all four lookups issued, the account
\* fields those of the answer, a failed lookup's field the error text with
\* its URL, a successful price lookup's field the amount of its response.
C3_Common(c, a, h) ==
    /\ ~last.raised
    /\ Len(calls) = 5
    /\ MatchesAccount(c, a)
    /\ \A q \in Queries :
         h[q].status # "200" => ErrorWithUrl(c[FieldOf(q)], q)
    /\ \A q \in PriceFields :
         h[q].status = "200" => c[q] = h[q].data.amount

(* C3 as claimed.  A non-throttled refresh of a wallet account whose        *)
(* get_account succeeds completes without a fault and issues all four       *)
(* lookups; a field whose lookup failed holds the error text quoting that   *)
(* lookup's URL, a field whose lookup succeeded holds the value returned by *)
(* its response, and the account fields equal the account response.         *)

C3_AsClaimed ==
    GotKind(WALLET) =>
        LET c == clients[last.idx]
            a == last.world.account.data
            h == last.world.http
            rates == h["exchange_rate"].data.rates
        IN  /\ C3_Common(c, a, h)
            /\ h["exchange_rate"].status = "200" =>
                 /\ c.exch_rate_native_usd \in {rates[k] : k \in DOMAIN rates}
                 /\ a.native_balance.currency.v \in DOMAIN rates =>
                      c.exch_rate_native_usd = rates[a.native_balance.currency.v]

(* C3 as amended.  The same, except that the rate field of a successful     *)
(* exchange-rate lookup holds the rate of the native currency when the      *)
(* response's rates map has it, and the text saying that the currency is    *)
(* not supported by Coinbase when it has not.                               *)

C3_PricingFieldsPerLookup ==
    GotKind(WALLET) =>
        LET c == clients[last.idx]
            a == last.world.account.data
            h == last.world.http
            rates == h["exchange_rate"].data.rates
            nat == a.native_balance.currency
        IN  /\ C3_Common(c, a, h)
            /\ h["exchange_rate"].status = "200" =>
                 c.exch_rate_native_usd =
                     IF nat.v \in DOMAIN rates THEN rates[nat.v]
                     ELSE NotSupported(nat)

\* a wallet refresh whose spot lookup alone failed
C3_Witness ==
    /\ GotKind(WALLET)
    /\ \A q \in Queries :
         (last.world.http[q].status # "200") <=> (q = "spot_price")

(* C4. From a fresh poller, as long as every account answer was of kind     *)
(* fiat, buy_price, sell_price and spot_price are unset, and an executed    *)
(* refresh of a fiat account issues the exchange-rate lookup and no other   *)
(* pricing request.                                                         *)

C4_FiatNeverPriced ==
    /\ \A p \in 1..Len(clients) :
         ~ever_wallet[p] => \A f \in PriceFields : clients[p][f] = None
    /\ (last.op = "update" /\ NotThrottled(last.since)) =>
         /\ last.world # None
         /\ GotKind(FIAT) => PricingQueries(calls) = <<"exchange_rate">>

\* a second refresh of a poller that only ever saw a fiat account
C4_Witness ==
    /\ GotKind(FIAT)
    /\ last.since # None
    /\ ~ever_wallet[last.idx]

Empty(c) == \A f \in SnapshotFields : c[f] = None
AccountPopulated(c) == \A f \in AccountFields : c[f] # None

(* C5. Between operations the snapshot is either fully empty or fully      *)
(* populated for its kind, and a snapshot of kind fiat has its pricing      *)
(* fields unset.  The statement is read in the code's favour where update   *)
(* follows its description: the exchange rate, which update stores for      *)
(* every kind of account, is required of every populated snapshot and is    *)
(* not counted among the fields a fiat snapshot must have unset; those are  *)
(* buy, sell and spot price.                                                *)

C5_EmptyOrPopulatedForKind ==
    \A p \in 1..Len(clients) :
        LET c == clients[p]
        IN  /\ \/ Empty(c)
               \/ /\ AccountPopulated(c)
                  /\ c.exch_rate_native_usd # None
                  /\ c.account_type = WALLET => \A f \in PriceFields : c[f] # None
            /\ c.account_type = FIAT => \A f \in PriceFields : c[f] = None

(* C6. After an executed refresh whose get_account succeeds, every snapshot *)
(* field holds a value derived from that refresh's own answers, or is unset *)
(* because it does not apply to the reported kind; no field keeps a value   *)
(* written by an earlier refresh.                                           *)

C6_OverwrittenWholesale ==
    GotAccount =>
        LET c == clients[last.idx]
            a == last.world.account.data
            h == last.world.http
            cur == a.balance.currency
            nat == a.native_balance.currency
        IN  /\ MatchesAccount(c, a)
            /\ c.exch_rate_native_usd =
                   coinbasehttp("exchange_rate", None, nat, h["exchange_rate"]).value
            /\ \A q \in PriceFields :
                   c[q] = IF a.type = WALLET
                          THEN coinbasehttp(q, cur, nat, h[q]).value
                          ELSE None

(* C9. An executed refresh issues get_account once and first; after an      *)
(* authentication failure nothing else; otherwise one exchange-rate lookup  *)
(* keyed by the native currency, and then, for a wallet and only for a      *)
(* wallet, the buy, sell and spot lookups in that order for the             *)
(* balance-currency/native-currency pair.                                   *)

C9_CallSequence ==
    (last.op = "update" /\ NotThrottled(last.since)) =>
        /\ last.world # None
        /\ Len(calls) >= 1
        /\ calls[1] = GetAccountCall(clients[last.idx])
        /\ \A i \in 2..Len(calls) : calls[i].api = "coinbasehttp"
        /\ IF last.world.account.error
           THEN Len(calls) = 1
           ELSE LET a == last.world.account.data
                    cur == a.balance.currency
                    nat == a.native_balance.currency
                IN  /\ PricingQueries(calls) =
                           IF a.type = WALLET
                           THEN <<"exchange_rate", "buy_price", "sell_price", "spot_price">>
                           ELSE <<"exchange_rate">>
                    /\ calls[2].currency_native = nat
                    /\ \A i \in 3..Len(calls) :
                           /\ calls[i].currency = cur
                           /\ calls[i].currency_native = nat
                           /\ Contains(calls[i].req_url,
                                       cur.v \o <<"-">> \o nat.v)

\* a wallet refresh that issued its five calls
C9_Witness ==
    /\ GotKind(WALLET)
    /\ Len(calls) = 5

(* C7. After a successful listing, setup_platform has registered exactly    *)
(* one sensor, with a poller of its own, for each listed account whose name *)
(* is not in the exclusion list and none for the others; the registered     *)
(* sensors are in listing order and each is bound to its account's id.      *)

NotExcluded(config, accounts) ==
    SelectSeq(accounts, LAMBDA a : a.name \notin config.exclude_wallet)

C7_OneSensorPerIncludedAccount ==
    (last.op = "setup_platform" /\ ~last.world.listing.error) =>
        LET want == NotExcluded(last.world.config, last.world.listing.data)
        IN  /\ Len(devices) = 1
            /\ Len(devices[1]) = Len(want)
            /\ Len(sensors) = Len(want)
            /\ \A k \in 1..Len(want) :
                 LET s == sensors[devices[1][k]]
                 IN  /\ s.account_id = want[k].id
                     /\ s.name = Str(<<"Coinbase ">> \o want[k].name.v)
                     /\ s.data \in 1..Len(clients)
                     /\ clients[s.data].account_id = want[k].id
            /\ \A i, j \in 1..Len(want) :
                 i # j => /\ devices[1][i] # devices[1][j]
                          /\ sensors[devices[1][i]].data # sensors[devices[1][j]].data

\* accounts Vault, Checking with Vault excluded: one sensor, for Checking
C7_Witness ==
    /\ last.op = "setup_platform" /\ ~last.world.listing.error
    /\ last.world.config.exclude_wallet = {Str(<<"Vault">>)}
    /\ [k \in 1..Len(last.world.listing.data) |-> last.world.listing.data[k].name]
           = << Str(<<"Vault">>), Str(<<"Checking">>) >>
    /\ Len(sensors) = 1

(* C8. When the account listing fails with an authentication error,         *)
(* setup_platform returns False, constructs no poller and no sensor, makes  *)
(* no per-account remote call and never invokes add_devices.                *)

C8_ListingFailureAbortsSetup ==
    /\ (last.op = "setup_platform" /\ last.world.listing.error) =>
          /\ setup.result = Bool(FALSE)
          /\ calls = << [api |-> "get_accounts", arg |-> None] >>
    /\ (setup.ran /\ setup.result = Bool(FALSE)) =>
          /\ sensors = << >>
          /\ clients = << >>
          /\ devices = << >>

\* the listing failed
C8_Witness ==
    /\ last.op = "setup_platform" /\ last.world.listing.error
    /\ setup.ran

(* C10. Throttling is per poller: a refresh of one sensor's poller, however *)
(* it ends, leaves every other sensor's poller (snapshot and last-refresh   *)
(* time) as it was, and whether a refresh executes is decided by the time   *)
(* since that poller's own last refresh.                                    *)

C10_ThrottlePerPoller ==
    [][ \A i \in 1..Len(sensors) :
          (last'.op = "sensor_update" /\ last'.idx = i) =>
             /\ \A j \in 1..Len(sensors) :
                  j # i => /\ sensors[j].data # sensors[i].data
                           /\ clients'[sensors[j].data] = clients[sensors[j].data]
             /\ (calls' = <<>>) <=>
                  ~NotThrottled(Since(clients[sensors[i].data].throttle, now))
      ]_vars

\* one sensor refreshed while another, refreshed at another time, exists
C10_Witness ==
    /\ Len(sensors) >= 2
    /\ last.op = "sensor_update" /\ last.outcome = "refreshed"
    /\ \E j \in 1..Len(sensors) :
         /\ j # last.idx
         /\ clients[sensors[j].data].account_type # None
         /\ clients[sensors[j].data].throttle # clients[sensors[last.idx].data].throttle

(* C11. An exchange-rate lookup that is answered successfully yields the    *)
(* rate the response's rates map holds under the requested native currency  *)
(* code when the map has that code, and exactly the text                    *)
(*   Currency "<code>" not supported by Coinbase                            *)
(* when it has not; either way the refresh, of a wallet or of a fiat        *)
(* account, completes without a fault and the value is stored in the rate   *)
(* field.                                                                   *)

C11_RateOrNotSupported ==
    (GotAccount /\ last.world.http["exchange_rate"].status = "200") =>
        LET rates == last.world.http["exchange_rate"].data.rates
            code == last.world.account.data.native_balance.currency
        IN  /\ ~last.raised
            /\ last.outcome = "refreshed"
            /\ calls[2].query = "exchange_rate"
            /\ calls[2].currency_native = code
            /\ code.v \in DOMAIN rates =>
                  clients[last.idx].exch_rate_native_usd = rates[code.v]
            /\ code.v \notin DOMAIN rates =>
                  clients[last.idx].exch_rate_native_usd =
                      Str(<<"Currency \"">> \o code.v
                          \o <<"\" not supported by Coinbase">>)

\* a fiat account in XYZ, a currency the answered rates map does not have
C11_Witness ==
    /\ GotKind(FIAT)
    /\ last.world.http["exchange_rate"].status = "200"
    /\ last.world.account.data.native_balance.currency = Str(<<"XYZ">>)
    /\ clients[last.idx].exch_rate_native_usd.py = "str"
    /\ Contains(clients[last.idx].exch_rate_native_usd.v, <<"XYZ">>)

(* C12. balance is a pure read: called with True it returns the snapshot's  *)
(* native-balance amount, called with False the snapshot's balance amount;  *)
(* the call leaves every snapshot field and the time of the last refresh as *)
(* they were and issues no remote call.                                     *)

C12_BalanceIsPureRead ==
    [][ \A p \in 1..Len(clients) :
          (last'.op = "balance" /\ last'.idx = p) =>
             /\ ~last'.raised
             /\ last'.world.native =>
                   last'.result = clients[p].native_balance_amount
             /\ ~last'.world.native =>
                   last'.result = clients[p].balance_amount
             /\ clients'[p] = clients[p]
             /\ calls' = <<>>
      ]_vars

\* the native amount was read from a populated snapshot whose two amounts
\* differ
C12_Witness ==
    /\ last.op = "balance" /\ last.world.native
    /\ last.result # None
    /\ last.result = clients[last.idx].native_balance_amount
    /\ last.result # clients[last.idx].balance_amount

(* C13. A refresh that was attempted and ended in an authentication failure *)
(* arms the throttle like a successful one: an update of the same poller    *)
(* called less than 60 seconds after it returns at once, None, without      *)
(* calling get_account or anything else, and changes nothing.               *)

C13_FailedAttemptArmsThrottle ==
    [][ \A p \in 1..Len(clients) :
          ( /\ last'.op = "update" /\ last'.idx = p
            /\ attempted[p] # None
            /\ attempted[p].auth_failed
            /\ now - attempted[p].at < MIN_TIME_BETWEEN_SCANS )
          => ( /\ calls' = <<>>
               /\ ~last'.raised
               /\ last'.result = None
               /\ clients'[p] = clients[p] )
      ]_vars

\* an update some time, but less than 60 s, after the poller's get_account
\* failed
C13_Witness ==
    /\ last.op = "update" /\ calls = <<>>
    /\ attempted[last.idx] # None
    /\ attempted[last.idx].auth_failed
    /\ now - attempted[last.idx].at > 0
    /\ now - attempted[last.idx].at < MIN_TIME_BETWEEN_SCANS

(* C14. An update is throttled only when less than 60 seconds have elapsed: *)
(* called on a poller that never called get_account, or 60 seconds or more  *)
(* (exactly 60 included) after its last call of get_account, it executes,   *)
(* that is, it calls get_account first.  So a poller the host keeps calling *)
(* is not throttled forever: while the clock can still reach 60 seconds     *)
(* past the last refresh, a throttled update is followed by an executed one.*)

C14_ExecutesOnceIntervalElapsed ==
    /\ [][ \A p \in 1..Len(clients) :
            ( /\ last'.op = "update" /\ last'.idx = p
              /\ \/ attempted[p] = None
                 \/ now - attempted[p].at >= MIN_TIME_BETWEEN_SCANS )
            => ( /\ calls' # <<>>
                 /\ calls'[1] = GetAccountCall(clients[p])
                 /\ attempted'[p].at = now )
        ]_vars
    /\ [] ( ( /\ last.op = "update" /\ calls = <<>>
              /\ attempted[last.idx].at + MIN_TIME_BETWEEN_SCANS <= MaxTime )
            => <> ( /\ last.op = "update" /\ calls # <<>>
                    /\ now >= MIN_TIME_BETWEEN_SCANS ) )

\* an update exactly 60 s after the previous refresh, which executed
C14_Witness ==
    /\ last.op = "update" /\ calls # <<>>
    /\ last.since # None
    /\ last.since.v = MIN_TIME_BETWEEN_SCANS

\* how many times the call log cs has get_account for account id
GetAccountCalls(cs, id) ==
    Len(SelectSeq(cs, LAMBDA c : c = [api |-> "get_account", arg |-> id]))

(* C15. Constructing a sensor refreshes its new poller at once and          *)
(* unthrottled: the construction issues get_account for its account exactly *)
(* once; if that call succeeds the sensor's state is the account's balance  *)
(* (native or not, as configured) and not unset; and an update of the       *)
(* sensor by the host less than 60 seconds after the construction issues no *)
(* remote call.                                                             *)

C15_ConstructionRefreshesOnce ==
    /\ (last.op = "setup_platform" /\ ~last.world.listing.error) =>
          \A k \in 1..Len(sensors) :
              LET s == sensors[k]
                  answer == last.world.inputs[k].account
              IN  /\ GetAccountCalls(calls, s.account_id) = 1
                  /\ ~answer.error =>
                        /\ s.state # None
                        /\ s.state = IF s.native
                                     THEN answer.data.native_balance.amount
                                     ELSE answer.data.balance.amount
    /\ (last.op = "sensor_update"
           /\ now - setup.at.v < MIN_TIME_BETWEEN_SCANS) => calls = <<>>

\* a sensor constructed populated was updated by the host while the
\* interval since its construction was running
C15_Witness ==
    /\ last.op = "sensor_update"
    /\ now > setup.at.v
    /\ now - setup.at.v < MIN_TIME_BETWEEN_SCANS
    /\ sensors[last.idx].state # None

(* C16. Between host calls, after construction and after every update of a  *)
(* sensor (executed, throttled, or ended by an authentication failure), the *)
(* sensor's state is what its poller's balance returns for the sensor's     *)
(* native flag.                                                             *)

C16_StateIsPollerBalance ==
    \A i \in 1..Len(sensors) :
        LET c == clients[sensors[i].data]
        IN  /\ sensors[i].native =>
                  sensors[i].state = c.native_balance_amount
            /\ ~sensors[i].native =>
                  sensors[i].state = c.balance_amount

\* an executed update, 60 s or more after the construction, gave the sensor
\* the native amount of its answer
C16_Witness ==
    /\ last.op = "sensor_update" /\ last.outcome = "refreshed"
    /\ now >= setup.at.v + MIN_TIME_BETWEEN_SCANS
    /\ sensors[last.idx].native
    /\ sensors[last.idx].state # None
    /\ sensors[last.idx].state = last.world.account.data.native_balance.amount

PricingKeys == {"buy_price", "sell_price", "spot_price", "exch_rate_native_usd"}
OtherKeys ==
    { "resource", "primary", "type", "created_at", "updated_at",
      "balance_amount", "balance_currency", "native_balance_amount",
      "native_balance_currency", "show_native" }

(* C17. In every reachable state a sensor's attribute map has the four      *)
(* pricing keys (buy_price, sell_price, spot_price, exch_rate_native_usd)   *)
(* when its poller's snapshot is of kind wallet and none of them when the   *)
(* snapshot is of kind fiat or still empty; the other keys are always       *)
(* there.  What the host reads is that map.                                 *)

C17_PricingKeysIffWallet ==
    /\ \A i \in 1..Len(sensors) :
         LET m == state_attributes(sensors[i], clients)
             kind == clients[sensors[i].data].account_type
         IN  /\ kind = WALLET => PricingKeys \subseteq DOMAIN m
             /\ kind # WALLET => PricingKeys \cap DOMAIN m = {}
             /\ OtherKeys \subseteq DOMAIN m
             /\ DOMAIN m \subseteq OtherKeys \cup PricingKeys
    /\ last.op = "state_attributes" =>
         /\ last.result = state_attributes(sensors[last.idx], clients)
         /\ (clients[sensors[last.idx].data].account_type = WALLET)
               <=> ("buy_price" \in DOMAIN last.result)

\* the host read the attributes of a sensor whose poller reports fiat and
\* still holds the prices of an earlier wallet refresh: they are not shown
C17_Witness ==
    /\ last.op = "state_attributes"
    /\ clients[sensors[last.idx].data].account_type = FIAT
    /\ clients[sensors[last.idx].data].buy_price # None
    /\ PricingKeys \cap DOMAIN last.result = {}
    /\ last.result.type = FIAT

(* C18. On a successful listing setup_platform calls add_devices exactly    *)
(* once, as its last call, after the first refresh of the poller of every   *)
(* account that is not excluded; the list it passes holds every sensor that *)
(* was constructed, also a sensor whose first refresh ended in an           *)
(* authentication failure and whose snapshot is therefore still empty.      *)
(* Nothing calls add_devices afterwards.                                    *)

C18_RegisteredOnceAfterFirstRefreshes ==
    /\ (setup.ran /\ setup.result = None) => Len(devices) = 1
    /\ (last.op = "setup_platform" /\ ~last.world.listing.error) =>
         LET want == NotExcluded(last.world.config, last.world.listing.data)
             registered == {devices[1][k] : k \in 1..Len(devices[1])}
         IN  /\ setup.result = None
             /\ Len(SelectSeq(calls, LAMBDA c : c.api = "add_devices")) = 1
             /\ calls[Len(calls)] = [api |-> "add_devices", arg |-> devices[1]]
             /\ Len(sensors) = Len(want)
             /\ registered = 1..Len(sensors)
             /\ \A k \in 1..Len(want) :
                  \E j \in 1..(Len(calls) - 1) :
                      calls[j] = [api |-> "get_account", arg |-> want[k].id]
             /\ \A k \in 1..Len(sensors) :
                  last.world.inputs[k].account.error =>
                      /\ k \in registered
                      /\ Empty(clients[sensors[k].data])
                      /\ sensors[k].state = None

\* two sensors were registered: the first refresh of one failed to
\* authenticate, that of the other populated its snapshot
C18_Witness ==
    /\ last.op = "setup_platform" /\ ~last.world.listing.error
    /\ Len(devices) = 1 /\ Len(devices[1]) = 2
    /\ \E i, j \in 1..Len(sensors) :
         /\ last.world.inputs[i].account.error
         /\ Empty(clients[sensors[i].data])
         /\ ~Empty(clients[sensors[j].data])

====
